---- MODULE Spec2Model ----
(***************************************************************************)
(* Model of src/main.py: the statute-text pipeline                         *)
(*   detect_structure -> minimal_clean -> build_records_per_pdf ->         *)
(*   explode_ayat_rows_df -> ayat/pasal number normalisation ->            *)
(*   drop_penjelasan_df.                                                   *)
(*                                                                         *)
(* A Python str is a sequence of characters; a character is a TLA+ string. *)
(* Printable ASCII characters stand for themselves, the others carry a     *)
(* mnemonic (NUL, ELLIPSIS, FWONE).  Offsets into a text are 0-based as in *)
(* Python; sequence indexes are 1-based, so offset = index - 1.            *)
(***************************************************************************)
EXTENDS Integers, Sequences, FiniteSets, TLC

VARIABLES pc, raw_text, blocks, records, df, cleaned

vars == <<pc, raw_text, blocks, records, df, cleaned>>

-----------------------------------------------------------------------------
(* Characters *)

LF == "\n"
CR == "\r"
TAB == "\t"
FF == "\f"
SP == " "
\* U+0000
NUL == "<NUL>"
\* U+2026 HORIZONTAL ELLIPSIS
ELLIPSIS == "<U+2026>"
\* U+FF11 FULLWIDTH DIGIT ONE: category Nd, so \d matches it; NFKC maps it to "1"
FWONE == "<U+FF11>"

\* Python None / a missing cell: distinct from every str, the str "None" included
None == <<"<None>">>

UPPER == <<"A","B","C","D","E","F","G","H","I","J","K","L","M",
           "N","O","P","Q","R","S","T","U","V","W","X","Y","Z">>
LOWER == <<"a","b","c","d","e","f","g","h","i","j","k","l","m",
           "n","o","p","q","r","s","t","u","v","w","x","y","z">>

\* str.lower() on one character
LowerChar(c) ==
    IF \E i \in 1..Len(UPPER) : UPPER[i] = c
    THEN LOWER[CHOOSE i \in 1..Len(UPPER) : UPPER[i] = c]
    ELSE c

\* str.upper() on one character
UpperChar(c) ==
    IF \E i \in 1..Len(LOWER) : LOWER[i] = c
    THEN UPPER[CHOOSE i \in 1..Len(LOWER) : LOWER[i] = c]
    ELSE c

lower(s) == [i \in 1..Len(s) |-> LowerChar(s[i])]

upper(s) == [i \in 1..Len(s) |-> UpperChar(s[i])]

\* regex \s and str.isspace()
Space == {SP, TAB, LF, CR, FF}

\* regex [ \t]
Blank == {SP, TAB}

AsciiDigit == {"0","1","2","3","4","5","6","7","8","9"}

\* regex \d on a str pattern (Unicode decimal digits)
Digit == AsciiDigit \cup {FWONE}

\* regex [A-Za-z]
Letter == {UPPER[i] : i \in 1..Len(UPPER)} \cup {LOWER[i] : i \in 1..Len(LOWER)}

\* regex (?i)[IVXLCM]
RomanM == {"I","V","X","L","C","M","i","v","x","l","c","m"}

\* regex (?i)[IVXLC]
Roman == {"I","V","X","L","C","i","v","x","l","c"}

\* regex (?i)[0-9IVXLC]
PartNumeral == AsciiDigit \cup Roman

\* the boundaries str.splitlines() splits at ("\r\n" counts as one)
LineBreak == {LF, CR, FF}

IsSpace(c) == c \in Space

-----------------------------------------------------------------------------
(* String primitives *)

\* Greedy run: the first index j >= i at which P stops holding (Len(t)+1 at the end)
SkipWhile(t, i, class) ==
    CHOOSE j \in i..(Len(t) + 1) :
        /\ \A k \in i..(j - 1) : t[k] \in class
        /\ (j = Len(t) + 1 \/ t[j] \notin class)

\* the first index j >= i holding a character of class (Len(t)+1 when there is none)
SkipUntil(t, i, class) ==
    CHOOSE j \in i..(Len(t) + 1) :
        /\ \A k \in i..(j - 1) : t[k] \notin class
        /\ (j = Len(t) + 1 \/ t[j] \in class)

\* t[i-1:j-1] in Python terms: the characters at indexes i .. j-1
Slice(t, i, j) == IF j <= i THEN <<>> ELSE SubSeq(t, i, j - 1)

\* str.strip()
strip(t) ==
    LET a == SkipWhile(t, 1, Space)
    IN  IF a > Len(t) THEN <<>>
        ELSE LET b == CHOOSE j \in a..Len(t) :
                          /\ ~IsSpace(t[j])
                          /\ \A k \in (j + 1)..Len(t) : IsSpace(t[k])
             IN  SubSeq(t, a, b)

\* str.rstrip()
rstrip(t) ==
    IF \A k \in 1..Len(t) : IsSpace(t[k]) THEN <<>>
    ELSE LET b == CHOOSE j \in 1..Len(t) :
                      /\ ~IsSpace(t[j])
                      /\ \A k \in (j + 1)..Len(t) : IsSpace(t[k])
         IN  SubSeq(t, 1, b)

\* case-insensitive literal at index p
EqCI(t, p, word) ==
    /\ p + Len(word) - 1 <= Len(t)
    /\ \A k \in 1..Len(word) : LowerChar(t[p + k - 1]) = LowerChar(word[k])

\* literal prefix test, str.startswith
startswith(t, word) ==
    /\ Len(word) <= Len(t)
    /\ \A k \in 1..Len(word) : t[k] = word[k]

\* the `in` operator on two str
contains(t, word) ==
    \E p \in 1..(Len(t) + 1) :
        /\ p + Len(word) - 1 <= Len(t)
        /\ \A k \in 1..Len(word) : t[p + k - 1] = word[k]

\* index just past the line boundary that starts at index i
AfterBreak(t, i) ==
    IF t[i] = CR /\ i + 1 <= Len(t) /\ t[i + 1] = LF THEN i + 2 ELSE i + 1

RECURSIVE SplitFrom(_, _)
SplitFrom(t, i) ==
    IF i > Len(t) THEN <<>>
    ELSE LET j == SkipUntil(t, i, LineBreak)
         IN  IF j > Len(t) THEN <<Slice(t, i, j)>>
             ELSE <<Slice(t, i, j)>> \o SplitFrom(t, AfterBreak(t, j))

\* str.splitlines()
splitlines(t) == SplitFrom(t, 1)

RECURSIVE JoinLF(_)
\* "\n".join(lines)
JoinLF(lines) ==
    IF lines = <<>> THEN <<>>
    ELSE IF Len(lines) = 1 THEN lines[1]
    ELSE lines[1] \o <<LF>> \o JoinLF(Tail(lines))

\* regex ^ under re.MULTILINE, at index p
AtLineStart(t, p) == p = 1 \/ t[p - 1] = LF

\* regex $ under re.MULTILINE, at index p
AtLineEnd(t, p) == p = Len(t) + 1 \/ t[p] = LF

\* `\s*$`: the greedy whitespace run from e, backed off to the last index where $ holds;
\* 0 when there is none
TrailEnd(t, e) ==
    LET w == SkipWhile(t, e, Space)
        ok == {j \in e..w : AtLineEnd(t, j)}
    IN  IF ok = {} THEN 0 ELSE CHOOSE j \in ok : \A k \in ok : k <= j

PASAL == <<"P","a","s","a","l">>
BUKU == <<"B","U","K","U">>
BAB == <<"B","A","B">>
BAGIAN == <<"B","a","g","i","a","n">>

NoMatch == [ok |-> FALSE, start |-> 0, end |-> 0, label |-> <<>>]

-----------------------------------------------------------------------------
(* [STEP 2] detect_structure *)

\* PASAL_ANY_RE = (?im)^\s*Pasal\s+((\d+[A-Za-z]?)|([IVXLCM]+))\s*$ tried at index p
PASAL_ANY_RE(t, p) ==
    IF ~AtLineStart(t, p) THEN NoMatch
    ELSE LET q == SkipWhile(t, p, Space)
             r == q + Len(PASAL)
             s == SkipWhile(t, r, Space)
         IN  IF ~EqCI(t, q, PASAL) \/ s = r \/ s > Len(t) THEN NoMatch
             ELSE LET d == SkipWhile(t, s, Digit)
                      e == IF t[s] \in Digit
                           THEN (IF d <= Len(t) /\ t[d] \in Letter THEN d + 1 ELSE d)
                           ELSE IF t[s] \in RomanM THEN SkipWhile(t, s, RomanM)
                           ELSE 0
                      z == IF e = 0 THEN 0 ELSE TrailEnd(t, e)
                  IN  IF z = 0 THEN NoMatch
                      ELSE [ok |-> TRUE, start |-> p, end |-> z, label |-> Slice(t, s, e)]

MinOf(S) == CHOOSE x \in S : \A y \in S : x <= y

RECURSIVE FinditerFrom(_, _)
FinditerFrom(t, pos) ==
    LET hits == {p \in pos..Len(t) : PASAL_ANY_RE(t, p).ok}
    IN  IF hits = {} THEN <<>>
        ELSE LET m == PASAL_ANY_RE(t, MinOf(hits))
             IN  <<m>> \o FinditerFrom(t, m.end)

\* list(PASAL_ANY_RE.finditer(full_text)): leftmost non-overlapping matches
finditer(t) == FinditerFrom(t, 1)

NoHeading == [ok |-> FALSE, label |-> <<>>, title |-> <<>>]

\* (?im)^\s*WORD\s+([numerals]+)\s*(.*)$ matched at the start of one line
HeadingMatch(ln, word, Num) ==
    LET q == SkipWhile(ln, 1, Space)
        r == q + Len(word)
        s == SkipWhile(ln, r, Space)
    IN  IF EqCI(ln, q, word) /\ s > r /\ s <= Len(ln) /\ ln[s] \in Num
        THEN LET e == SkipWhile(ln, s, Num)
             IN  [ok |-> TRUE, label |-> strip(Slice(ln, s, e)),
                  title |-> strip(Slice(ln, SkipWhile(ln, e, Space), Len(ln) + 1))]
        ELSE NoHeading

BUKU_RE(ln) == HeadingMatch(ln, BUKU, Roman)

BAB_RE(ln) == HeadingMatch(ln, BAB, Roman)

BAGIAN_RE(ln) == HeadingMatch(ln, BAGIAN, PartNumeral)

RECURSIVE SumLen(_, _)
SumLen(lines, k) == IF k = 0 THEN 0 ELSE SumLen(lines, k - 1) + Len(lines[k]) + 1

\* line_starts: pos starts at 0 and grows by len(ln) + 1 per line
line_starts(lines) == [i \in 1..Len(lines) |-> SumLen(lines, i - 1)]

\* buku_marks / bab_marks / bagian_marks: (line_starts[i], (kind, label, title)) in line order
heading_re(kind, ln) ==
    CASE kind = "BUKU" -> BUKU_RE(ln)
      [] kind = "BAB" -> BAB_RE(ln)
      [] kind = "BAGIAN" -> BAGIAN_RE(ln)

marks(full_text, kind) ==
    LET lines == splitlines(full_text)
        starts == line_starts(lines)
        idx == SelectSeq([i \in 1..Len(lines) |-> i],
                         LAMBDA i : heading_re(kind, lines[i]).ok)
    IN  [k \in 1..Len(idx) |->
            <<starts[idx[k]],
              <<kind, heading_re(kind, lines[idx[k]]).label,
                heading_re(kind, lines[idx[k]]).title>>>>]

buku_marks(full_text) == marks(full_text, "BUKU")

bab_marks(full_text) == marks(full_text, "BAB")

bagian_marks(full_text) == marks(full_text, "BAGIAN")

RECURSIVE NearestScan(_, _, _, _)
NearestScan(idx, ms, k, prev) ==
    IF k > Len(ms) THEN prev
    ELSE IF ms[k][1] <= idx THEN NearestScan(idx, ms, k + 1, ms[k][2])
    ELSE prev

nearest_tag(idx, ms) == NearestScan(idx, ms, 1, None)

\* (?im)^\s*Pasal\s+<re.escape(pasal_label)>\s*$ tried at index p
HeaderAt(body, pasal_label, p) ==
    IF ~AtLineStart(body, p) THEN 0
    ELSE LET q == SkipWhile(body, p, Space)
             r == q + Len(PASAL)
             s == SkipWhile(body, r, Space)
         IN  IF EqCI(body, q, PASAL) /\ s > r /\ EqCI(body, s, pasal_label)
             THEN TrailEnd(body, s + Len(pasal_label))
             ELSE 0

\* [ \t]+ tried at index p
BlankRun(t, p) == IF t[p] \in Blank THEN SkipWhile(t, p, Blank) ELSE 0

\* -\n\s* tried at index p
HyphenBreak(t, p) ==
    IF t[p] = "-" /\ p + 1 <= Len(t) /\ t[p + 1] = LF
    THEN SkipWhile(t, p + 2, Space)
    ELSE 0

\* Dots with the three full stops left unescaped, each taking any visible character
Mutant_Dots_unescaped(t, p) ==
    LET a == SkipWhile(t, p, Space)
        b == SkipWhile(t, a + 1, Space)
        c == SkipWhile(t, b + 1, Space)
    IN  IF a <= Len(t) /\ b <= Len(t) /\ c <= Len(t)
        THEN SkipWhile(t, c + 1, Space)
        ELSE 0

\* \s*\.\s*\.\s*\.\s* tried at index p
Dots(t, p) ==
    LET a == SkipWhile(t, p, Space)
        b == SkipWhile(t, a + 1, Space)
        c == SkipWhile(t, b + 1, Space)
    IN  IF /\ a <= Len(t) /\ t[a] = "."
           /\ b <= Len(t) /\ t[b] = "."
           /\ c <= Len(t) /\ t[c] = "."
        THEN SkipWhile(t, c + 1, Space)
        ELSE 0

\* \n{4,} tried at index p
NewlineRun(t, p) ==
    LET e == SkipWhile(t, p, {LF})
    IN  IF e - p >= 4 THEN e ELSE 0

\* [ \t]{2,} tried at index p
WideBlank(t, p) ==
    LET e == SkipWhile(t, p, Blank)
    IN  IF e - p >= 2 THEN e ELSE 0

\* the patterns re.sub is called with; none matches the empty string.
\* match_end is the index just past the match at p, 0 when there is none
match_end(pat, t, p) ==
    CASE pat.re = "header" -> HeaderAt(t, pat.label, p)
      [] pat.re = "blank_run" -> BlankRun(t, p)
      [] pat.re = "hyphen_break" -> HyphenBreak(t, p)
      [] pat.re = "dots" -> Dots(t, p)
      [] pat.re = "newline_run" -> NewlineRun(t, p)
      [] pat.re = "wide_blank" -> WideBlank(t, p)

RECURSIVE SubFrom(_, _, _, _)
\* re.sub(pat, repl, t) from index pos on: leftmost non-overlapping matches replaced
SubFrom(t, pos, pat, repl) ==
    LET hits == {p \in pos..Len(t) : match_end(pat, t, p) # 0}
    IN  IF hits = {} THEN Slice(t, pos, Len(t) + 1)
        ELSE LET p == MinOf(hits)
             IN  Slice(t, pos, p) \o repl \o SubFrom(t, match_end(pat, t, p), pat, repl)

re_sub(pat, repl, t) == SubFrom(t, 1, pat, repl)

\* body of one block: span, strip, header removal, strip, [ \t]+ -> one space
block_text(full_text, start, end, pasal_label) ==
    LET body0 == strip(Slice(full_text, start + 1, end + 1))
        body1 == strip(re_sub([re |-> "header", label |-> pasal_label], <<>>, body0))
    IN  re_sub([re |-> "blank_run"], <<SP>>, body1)

\* block_of with the block ended where its own header match ends
Mutant_block_of_header_end(full_text, matches, i) ==
    LET start == matches[i].start - 1
        end == matches[i].end - 1
        pasal_label == strip(matches[i].label)
    IN  [pasal_number |-> pasal_label,
         text |-> block_text(full_text, start, end, pasal_label),
         buku |-> nearest_tag(start, buku_marks(full_text)),
         bab |-> nearest_tag(start, bab_marks(full_text)),
         bagian |-> nearest_tag(start, bagian_marks(full_text)),
         start |-> start,
         end |-> end]

\* the dict appended per match; start and end are the loop's local offsets (0-based)
block_of(full_text, matches, i) ==
    LET start == matches[i].start - 1
        end == IF i + 1 <= Len(matches) THEN matches[i + 1].start - 1 ELSE Len(full_text)
        pasal_label == strip(matches[i].label)
    IN  [pasal_number |-> pasal_label,
         text |-> block_text(full_text, start, end, pasal_label),
         buku |-> nearest_tag(start, buku_marks(full_text)),
         bab |-> nearest_tag(start, bab_marks(full_text)),
         bagian |-> nearest_tag(start, bagian_marks(full_text)),
         start |-> start,
         end |-> end]

\* detect_structure falling back to one block for the whole text when nothing matches
Mutant_detect_structure_whole(full_text) ==
    LET matches == finditer(full_text)
    IN  IF matches = <<>>
        THEN <<[pasal_number |-> <<>>, text |-> strip(full_text), buku |-> None,
                bab |-> None, bagian |-> None, start |-> 0, end |-> Len(full_text)]>>
        ELSE [i \in 1..Len(matches) |-> block_of(full_text, matches, i)]

detect_structure(full_text) ==
    LET matches == finditer(full_text)
    IN  [i \in 1..Len(matches) |-> block_of(full_text, matches, i)]

-----------------------------------------------------------------------------
(* [STEP 3] minimal_clean *)

\* t.replace('\x00', '')
RemoveNul(t) == SelectSeq(t, LAMBDA c : c # NUL)

\* NFKC of one character: U+2026 decomposes to three full stops, U+FF11 to "1"
NFKCChar(c) ==
    IF c = ELLIPSIS THEN <<".", ".", ".">>
    ELSE IF c = FWONE THEN <<"1">>
    ELSE <<c>>

RECURSIVE NFKC(_)
\* unicodedata.normalize('NFKC', t)
NFKC(t) == IF t = <<>> THEN <<>> ELSE NFKCChar(Head(t)) \o NFKC(Tail(t))

\* [ln.rstrip() for ln in t.splitlines()] joined by "\n"
RstripLines(t) ==
    LET lines == splitlines(t)
    IN  JoinLF([i \in 1..Len(lines) |-> rstrip(lines[i])])

minimal_clean(t) ==
    IF t = None THEN t
    ELSE LET t1 == RemoveNul(t)
             t2 == NFKC(t1)
             t3 == re_sub([re |-> "hyphen_break"], <<>>, t2)
             t4 == re_sub([re |-> "dots"], <<ELLIPSIS>>, t3)
             t5 == RstripLines(t4)
             t6 == re_sub([re |-> "newline_run"], <<LF, LF>>, t5)
             t7 == re_sub([re |-> "wide_blank"], <<SP>>, t6)
         IN  strip(t7)

-----------------------------------------------------------------------------
(* [STEP 1] and [STEP 4] read_pdf_text, build_records_per_pdf *)

\* Both extractors return their text with every "\r" removed; which extractor ran
\* is outside the model, raw_text is what the extractor saw on the page.
read_pdf_text(txt) == SelectSeq(txt, LAMBDA c : c # CR)

PASAL_T == <<"P","A","S","A","L">>
AYAT_T == <<"A","Y","A","T">>

\* the rec dict built per block (uu_code stands for the cfg fields, all copied as is)
rec_of(uu_code, blk) ==
    [uu_code |-> uu_code,
     section_type |-> PASAL_T,
     title |-> PASAL \o <<SP>> \o blk.pasal_number,
     pasal_number |-> blk.pasal_number,
     ayat_number |-> None,
     buku |-> IF blk.buku # None THEN blk.buku[2] ELSE None,
     bab |-> IF blk.bab # None THEN blk.bab[2] ELSE None,
     bagian |-> IF blk.bagian # None THEN blk.bagian[2] ELSE None,
     text |-> minimal_clean(blk.text)]

build_records_per_pdf(uu_code, txt) ==
    LET raw == read_pdf_text(txt)
    IN  IF raw = <<>> \/ strip(raw) = <<>> THEN <<>>
        ELSE LET blks == detect_structure(raw)
             IN  [i \in 1..Len(blks) |-> rec_of(uu_code, blks[i])]

-----------------------------------------------------------------------------
(* [STEP 5] explode_ayat_rows_df *)

NoAyat == [end |-> 0, num |-> <<>>]

\* AYAT_SPLIT_RE = \(\s*(\d+)\s*\) tried at index p
AYAT_SPLIT_RE(t, p) ==
    IF t[p] # "(" THEN NoAyat
    ELSE LET a == SkipWhile(t, p + 1, Space)
             d == SkipWhile(t, a, Digit)
             b == SkipWhile(t, d, Space)
         IN  IF d > a /\ b <= Len(t) /\ t[b] = ")"
             THEN [end |-> b + 1, num |-> Slice(t, a, d)]
             ELSE NoAyat

RECURSIVE SplitAyatFrom(_, _)
SplitAyatFrom(t, pos) ==
    LET hits == {p \in pos..Len(t) : AYAT_SPLIT_RE(t, p).end # 0}
    IN  IF hits = {} THEN <<Slice(t, pos, Len(t) + 1)>>
        ELSE LET p == MinOf(hits)
                 m == AYAT_SPLIT_RE(t, p)
             IN  <<Slice(t, pos, p), m.num>> \o SplitAyatFrom(t, m.end)

\* AYAT_SPLIT_RE.split(text): [before, num, run, num, run, ...]
ayat_split(t) == SplitAyatFrom(t, 1)

\* str(x or "")
StrOrEmpty(x) == IF x = None THEN <<>> ELSE x

NAN_T == <<"n","a","n">>

\* pd.isna(v) or str(v) in ("", "nan")
ayat_is_empty(v) == v = None \/ v = <<>> \/ v = NAN_T

RECURSIVE Mutant_AyatRows_keep_empty(_, _, _)
\* AyatRows without the `if not body: continue`
Mutant_AyatRows_keep_empty(r, parts, i) ==
    IF i >= Len(parts) THEN <<>>
    ELSE LET ay == strip(parts[i + 1])
             body == strip(parts[i + 2])
             rr == [r EXCEPT !.section_type = AYAT_T, !.ayat_number = ay, !.text = body]
         IN  <<rr>> \o Mutant_AyatRows_keep_empty(r, parts, i + 2)

RECURSIVE AyatRows(_, _, _)
\* for i in range(1, len(parts), 2): one AYAT row per non-empty run
AyatRows(r, parts, i) ==
    IF i >= Len(parts) THEN <<>>
    ELSE LET ay == strip(parts[i + 1])
             body == strip(parts[i + 2])
             rr == [r EXCEPT !.section_type = AYAT_T, !.ayat_number = ay, !.text = body]
         IN  (IF body = <<>> THEN <<>> ELSE <<rr>>) \o AyatRows(r, parts, i + 2)

\* explode_row with `len(parts) > 1` written `len(parts) >= 1`
Mutant_explode_row_always(r) ==
    LET text == strip(StrOrEmpty(r.text))
        sect == upper(StrOrEmpty(r.section_type))
        parts == ayat_split(text)
    IN  IF sect = PASAL_T /\ ayat_is_empty(r.ayat_number) /\ Len(parts) >= 1
        THEN AyatRows(r, parts, 1)
        ELSE <<r>>

\* the rows one input row contributes
explode_row(r) ==
    LET text == strip(StrOrEmpty(r.text))
        sect == upper(StrOrEmpty(r.section_type))
        parts == ayat_split(text)
    IN  IF sect = PASAL_T /\ ayat_is_empty(r.ayat_number) /\ Len(parts) > 1
        THEN AyatRows(r, parts, 1)
        ELSE <<r>>

RECURSIVE explode_ayat_rows_df(_)
explode_ayat_rows_df(d) ==
    IF d = <<>> THEN <<>> ELSE explode_row(Head(d)) \o explode_ayat_rows_df(Tail(d))

-----------------------------------------------------------------------------
(* main: number normalisation between explosion and filtering *)

NONE_T == <<"N","o","n","e">>

\* Series.astype(str) on one cell.  A str cell is kept.  A missing cell becomes the
\* str "None" where pandas applies str() to it (object columns) and stays missing
\* where the column is cast to the string dtype (keep_missing); the source pins no
\* pandas release, so both are outcomes of a build.
astype_str(v, keep_missing) ==
    IF v = None THEN (IF keep_missing THEN None ELSE NONE_T) ELSE v

\* .str.replace(r"\.0$", "", regex=True) on one cell; $ also holds before a final "\n"
strip_dot_zero(v) ==
    IF v = None THEN None
    ELSE LET hits == {p \in 1..(Len(v) - 1) :
                         /\ v[p] = "." /\ v[p + 1] = "0"
                         /\ (p + 1 = Len(v) \/ (p + 2 = Len(v) /\ v[p + 2] = LF))}
         IN  IF hits = {} THEN v
             ELSE LET p == MinOf(hits) IN Slice(v, 1, p) \o Slice(v, p + 2, Len(v) + 1)

\* df["pasal_number"] and df["ayat_number"] rewritten, one row
normalize_row(r, keep_missing) ==
    [r EXCEPT !.pasal_number = strip_dot_zero(astype_str(r.pasal_number, keep_missing)),
              !.ayat_number = strip_dot_zero(astype_str(r.ayat_number, keep_missing))]

\* main, lines 253-256, on the whole frame
normalize_numbers(d, keep_missing) ==
    [i \in 1..Len(d) |-> normalize_row(d[i], keep_missing)]

-----------------------------------------------------------------------------
(* [STEP 6] drop_penjelasan_df *)

CUKUP_JELAS == <<"c","u","k","u","p"," ","j","e","l","a","s">>
PENJELASAN == <<"p","e","n","j","e","l","a","s","a","n">>

\* is_penjelasan with the phrase looked for anywhere in the body
Mutant_is_penjelasan_anywhere(row) ==
    LET text == lower(strip(StrOrEmpty(row.text)))
        title == lower(StrOrEmpty(row.title))
    IN  contains(text, CUKUP_JELAS) \/ contains(title, PENJELASAN)

is_penjelasan(row) ==
    LET text == lower(strip(StrOrEmpty(row.text)))
        title == lower(StrOrEmpty(row.title))
    IN  startswith(text, CUKUP_JELAS) \/ contains(title, PENJELASAN)

drop_penjelasan_df(d) == SelectSeq(d, LAMBDA row : ~is_penjelasan(row))

-----------------------------------------------------------------------------
(* Inputs *)

MaxPageTokens == 3
MaxLeadingLines == 8
MaxDetectTokens == 4
MaxCleanTokens == 4
MaxBodyTokens == 4
MaxFilterTokens == 3

RECURSIVE Concat(_)
Concat(ts) == IF ts = <<>> THEN <<>> ELSE Head(ts) \o Concat(Tail(ts))

\* every text made of at most n fragments of Toks
Texts(Toks, n) == {Concat(ts) : ts \in UNION {[1..k -> Toks] : k \in 0..n}}

\* fragments of an extracted page
PageTokens ==
    { PASAL \o <<SP, "1", LF>>, PASAL \o <<SP, "2", LF>>, BAB \o <<SP, "I", LF>>,
      <<"a">>, <<SP>>, <<LF>>, <<CR, LF>>, <<"(", "1", ")">>, <<"(", "2", ")">>,
      <<"C","u","k","u","p"," ","j","e","l","a","s">> }

\* fragments of a text handed to detect_structure on its own
DetectTokens ==
    { PASAL \o <<SP, "1">>, PASAL \o <<SP, "2">>, BAB \o <<SP, "I">>,
      BUKU \o <<SP, "I">>, BAGIAN \o <<SP, "2">>, <<"a">>, <<SP>>, <<LF>>, <<CR, LF>> }

\* n lines "a\r\n" ahead of the text
RECURSIVE LeadingLines(_)
LeadingLines(n) == IF n = 0 THEN <<>> ELSE <<"a", CR, LF>> \o LeadingLines(n - 1)

\* fragments of a text handed to minimal_clean on its own
CleanTokens ==
    { <<"-">>, <<LF>>, <<SP>>, <<"a">>, <<".">>, <<NUL>>, <<ELLIPSIS>>, <<FF>>,
      <<"(", "1", ")">>, <<"(", FWONE, ")">> }

\* fragments of a record body handed to explode_ayat_rows_df on its own
BodyTokens ==
    { <<"(", "1", ")">>, <<"(", SP, "2", SP, ")">>, <<"a">>, <<SP>>, <<"(">>, <<"7">> }

\* fragments of a record body handed to drop_penjelasan_df on its own
FilterTokens ==
    { CUKUP_JELAS, <<"C","u","k","u","p"," ","J","e","l","a","s",".">>,
      <<"T","i","d","a","k"," ">>, <<"c","u","k","u","p">>, <<SP>>, <<LF>>, <<"a">> }

\* record titles handed to drop_penjelasan_df on its own
FilterTitles ==
    { PASAL \o <<SP, "1">>,
      <<"P","e","n","j","e","l","a","s","a","n">> \o <<SP>> \o PASAL \o <<SP, "1">>,
      <<"P","E","N","J","E","L","A","S","A","N">>,
      <<"P","e","n","j","e","l","a","s">> }

UU_CODE == <<"X">>

\* a row as a caller of explode_ayat_rows_df / drop_penjelasan_df may pass it
Row(id, sect, title, ayat, text) ==
    [uu_code |-> UU_CODE, section_type |-> sect, title |-> title,
     pasal_number |-> id, ayat_number |-> ayat,
     buku |-> None, bab |-> <<"I">>, bagian |-> None, text |-> text]

-----------------------------------------------------------------------------
(* main: one document through the pipeline *)

Init ==
    /\ pc = "start"
    /\ raw_text \in Texts(PageTokens, MaxPageTokens)
    /\ blocks = <<>>
    /\ records = <<>>
    /\ df = <<>>
    /\ cleaned = <<>>

\* the blocks build_records_per_pdf gets from detect_structure (none on the early return)
blocks_per_pdf(txt) ==
    LET raw == read_pdf_text(txt)
    IN  IF raw = <<>> \/ strip(raw) = <<>> THEN <<>> ELSE detect_structure(raw)

\* main, lines 227-246: build the records; return when there are none
BuildRecords ==
    /\ pc = "start"
    /\ blocks' = blocks_per_pdf(raw_text)
    /\ records' = build_records_per_pdf(UU_CODE, raw_text)
    /\ pc' = IF records' = <<>> THEN "done" ELSE "built"
    /\ UNCHANGED <<raw_text, df, cleaned>>

\* main, line 249
Explode ==
    /\ pc = "built"
    /\ df' = explode_ayat_rows_df(records)
    /\ pc' = "exploded"
    /\ UNCHANGED <<raw_text, blocks, records, cleaned>>

\* main, lines 253-256
Normalize ==
    /\ pc = "exploded"
    /\ \E keep_missing \in BOOLEAN : df' = normalize_numbers(df, keep_missing)
    /\ pc' = "normalized"
    /\ UNCHANGED <<raw_text, blocks, records, cleaned>>

\* main, line 259; df is then the final record sequence
DropPenjelasan ==
    /\ pc = "normalized"
    /\ df' = drop_penjelasan_df(df)
    /\ pc' = "done"
    /\ UNCHANGED <<raw_text, blocks, records, cleaned>>

Next == BuildRecords \/ Explode \/ Normalize \/ DropPenjelasan

Spec == Init /\ [][Next]_vars

-----------------------------------------------------------------------------
(* detect_structure on its own *)

InitDetect ==
    /\ pc = "detect"
    /\ \E n \in {0, MaxLeadingLines}, t \in Texts(DetectTokens, MaxDetectTokens) :
           raw_text = LeadingLines(n) \o t
    /\ blocks = <<>>
    /\ records = <<>>
    /\ df = <<>>
    /\ cleaned = <<>>

DetectStructure ==
    /\ pc = "detect"
    /\ blocks' = detect_structure(raw_text)
    /\ pc' = "detected"
    /\ UNCHANGED <<raw_text, records, df, cleaned>>

NextDetect == DetectStructure

SpecDetect == InitDetect /\ [][NextDetect]_vars

-----------------------------------------------------------------------------
(* minimal_clean on its own, applied once and then to its own result *)

InitClean ==
    /\ pc = "clean"
    /\ raw_text \in Texts(CleanTokens, MaxCleanTokens)
    /\ blocks = <<>>
    /\ records = <<>>
    /\ df = <<>>
    /\ cleaned = <<>>

Clean ==
    /\ pc = "clean"
    /\ cleaned' = <<minimal_clean(raw_text)>>
    /\ pc' = "cleaned"
    /\ UNCHANGED <<raw_text, blocks, records, df>>

CleanAgain ==
    /\ pc = "cleaned"
    /\ cleaned' = Append(cleaned, minimal_clean(cleaned[1]))
    /\ pc' = "recleaned"
    /\ UNCHANGED <<raw_text, blocks, records, df>>

NextClean == Clean \/ CleanAgain

SpecClean == InitClean /\ [][NextClean]_vars

-----------------------------------------------------------------------------
(* explode_ayat_rows_df on its own: one or two rows, told apart by pasal_number *)

ExplodeFirstRows ==
    { Row(<<"1">>, sect, PASAL \o <<SP, "1">>, ayat, text) :
        sect \in {PASAL_T, PASAL, AYAT_T},
        ayat \in {None, <<>>, NAN_T, <<"3">>},
        text \in Texts(BodyTokens, MaxBodyTokens) }

ExplodeSecondRows ==
    { Row(<<"2">>, PASAL_T, PASAL \o <<SP, "2">>, None, text) :
        text \in { <<"a">>, <<"(", "1", ")", "a">>,
                   <<"(", "1", ")", "a", "(", "2", ")", "b">> } }

InitExplode ==
    /\ pc = "built"
    /\ records \in {<<r>> : r \in ExplodeFirstRows}
                   \cup {<<r, q>> : r \in {x \in ExplodeFirstRows :
                                              x.section_type = PASAL_T /\ x.ayat_number = None},
                                    q \in ExplodeSecondRows}
    /\ raw_text = <<>>
    /\ blocks = <<>>
    /\ df = <<>>
    /\ cleaned = <<>>

NextExplode == Explode

SpecExplode == InitExplode /\ [][NextExplode]_vars

-----------------------------------------------------------------------------
(* drop_penjelasan_df on its own: one or two rows, told apart by pasal_number *)

FilterFirstRows ==
    { Row(<<"1">>, PASAL_T, title, None, text) :
        title \in FilterTitles,
        text \in Texts(FilterTokens, MaxFilterTokens) \cup {None} }

FilterSecondRows ==
    { Row(<<"2">>, AYAT_T, title, <<"1">>, text) :
        title \in {PASAL \o <<SP, "2">>, <<"p","e","n","j","e","l","a","s","a","n">>},
        text \in {<<"a">>, <<SP>> \o CUKUP_JELAS} }

InitFilter ==
    /\ pc = "normalized"
    /\ records \in {<<r>> : r \in FilterFirstRows}
                   \cup {<<r, q>> : r \in FilterFirstRows, q \in FilterSecondRows}
    /\ df = records
    /\ raw_text = <<>>
    /\ blocks = <<>>
    /\ cleaned = <<>>

NextFilter == DropPenjelasan

SpecFilter == InitFilter /\ [][NextFilter]_vars

-----------------------------------------------------------------------------
(* Properties of explode_ayat_rows_df *)

\* the numbered-paragraph markers of t, stated on the text alone: <<i, j>> when
\* t[i] = "(", t[j] = ")" and between them lie optional whitespace, one or more
\* digits, optional whitespace
MarkerSpans(t) ==
    {sp \in (1..Len(t)) \X (1..Len(t)) :
        /\ sp[1] < sp[2]
        /\ t[sp[1]] = "("
        /\ t[sp[2]] = ")"
        /\ \E a, b \in (sp[1] + 1)..(sp[2] - 1) :
              /\ a <= b
              /\ \A k \in (sp[1] + 1)..(a - 1) : t[k] \in Space
              /\ \A k \in a..b : t[k] \in Digit
              /\ \A k \in (b + 1)..(sp[2] - 1) : t[k] \in Space}

MarkerCount(t) == Cardinality(MarkerSpans(t))

\* the k-th marker from the left
NthSpan(S, k) == CHOOSE sp \in S : Cardinality({o \in S : o[1] < sp[1]}) = k - 1

\* an ARTICLE record with no paragraph_label
IsArticle(r) == r.section_type = PASAL_T /\ r.ayat_number = None

\* the output rows that came from input row r (rows are told apart by pasal_number)
DerivedFrom(r) == SelectSeq(df, LAMBDA x : x.pasal_number = r.pasal_number)

\* the PARAGRAPH record the k-th marker of r's body stands for
ParagraphOf(r, k) ==
    LET S == MarkerSpans(r.text)
        sp == NthSpan(S, k)
        stop == IF k < Cardinality(S) THEN NthSpan(S, k + 1)[1] ELSE Len(r.text) + 1
    IN  [r EXCEPT !.section_type = AYAT_T,
                  !.ayat_number = SelectSeq(Slice(r.text, sp[1], sp[2]),
                                            LAMBDA c : c \in Digit),
                  !.text = strip(Slice(r.text, sp[2] + 1, stop))]

\* one PARAGRAPH record per marker with a non-empty run, in marker order
ExpectedParagraphs(r) ==
    SelectSeq([k \in 1..MarkerCount(r.text) |-> ParagraphOf(r, k)],
              LAMBDA x : x.text # <<>>)

\* C1 as stated: an ARTICLE record whose body holds fewer than two markers
\* is in the output unchanged, and nothing else is derived from it.
C1_FewerThanTwoUnchanged ==
    pc = "exploded" =>
        \A i \in 1..Len(records) :
            (IsArticle(records[i]) /\ MarkerCount(records[i].text) <= 1)
                => DerivedFrom(records[i]) = <<records[i]>>

\* C1 amended: an ARTICLE record whose body holds no marker is in the output
\* unchanged, and nothing else is derived from it; a body with exactly one marker
\* is exploded like a body with more: the record is replaced by the PARAGRAPH
\* record of that marker, or by nothing when the marker's trimmed run is empty.
C1_NoMarkerUnchanged ==
    pc = "exploded" =>
        \A i \in 1..Len(records) :
            /\ (IsArticle(records[i]) /\ MarkerCount(records[i].text) = 0)
                  => DerivedFrom(records[i]) = <<records[i]>>
            /\ (IsArticle(records[i]) /\ MarkerCount(records[i].text) = 1)
                  => DerivedFrom(records[i]) = ExpectedParagraphs(records[i])

C1_Witness ==
    /\ pc = "exploded"
    /\ Len(records) = 2
    /\ IsArticle(records[1])
    /\ MarkerCount(records[1].text) = 0
    /\ Len(records[1].text) >= 3
    /\ MarkerCount(records[2].text) = 2
    /\ df[1] = records[1]
    /\ Len(df) = 3

\* C6: an ARTICLE record whose body holds two or more markers is replaced by one
\* PARAGRAPH record per marker with a non-empty trimmed run, in marker order, the
\* label being the digits captured and the body the trimmed run; the text before
\* the first marker and the ARTICLE record itself are in no output record.
C6_ExplodedInMarkerOrder ==
    pc = "exploded" =>
        \A i \in 1..Len(records) :
            (IsArticle(records[i]) /\ MarkerCount(records[i].text) >= 2)
                => /\ DerivedFrom(records[i]) = ExpectedParagraphs(records[i])
                   /\ \A j \in 1..Len(df) : df[j] # records[i]

C6_Witness ==
    /\ pc = "exploded"
    /\ IsArticle(records[1])
    /\ MarkerCount(records[1].text) = 2
    /\ records[1].text[1] = "a"
    /\ Len(df) = 1
    /\ df[1].ayat_number = <<"2">>
    /\ df[1].text = <<"a">>

-----------------------------------------------------------------------------
(* Properties of drop_penjelasan_df *)

\* the title holds "penjelasan" somewhere, letter case ignored
TitleNamesAnnex(r) ==
    r.title # None /\
    \E p \in 1..Len(r.title) :
        /\ p + Len(PENJELASAN) - 1 <= Len(r.title)
        /\ \A k \in 1..Len(PENJELASAN) : LowerChar(r.title[p + k - 1]) = PENJELASAN[k]

\* after its leading whitespace the body begins with "cukup jelas", letter case ignored
BodyBeginsClear(r) ==
    r.text # None /\
    \E n \in 0..Len(r.text) :
        /\ \A k \in 1..n : r.text[k] \in Space
        /\ n + Len(CUKUP_JELAS) <= Len(r.text)
        /\ \A k \in 1..Len(CUKUP_JELAS) : LowerChar(r.text[n + k]) = CUKUP_JELAS[k]

\* the body holds the phrase, but not at its start
BodyHoldsClearLater(r) ==
    /\ r.text # None
    /\ ~BodyBeginsClear(r)
    /\ \E n \in 1..Len(r.text) :
          /\ n + Len(CUKUP_JELAS) <= Len(r.text)
          /\ \A k \in 1..Len(CUKUP_JELAS) : LowerChar(r.text[n + k]) = CUKUP_JELAS[k]

\* C8: a record is removed exactly when its title names the explanatory annex or
\* its body begins, after leading whitespace and whatever the letter case, with
\* "cukup jelas"; the other records stay, unmodified and in their order.
C8_DropsExactlyExplanatory ==
    pc = "done" =>
        df = SelectSeq(records, LAMBDA r : ~(TitleNamesAnnex(r) \/ BodyBeginsClear(r)))

C8_Witness ==
    /\ pc = "done"
    /\ Len(records) = 2
    /\ BodyHoldsClearLater(records[1])
    /\ ~TitleNamesAnnex(records[1])
    /\ BodyBeginsClear(records[2])
    /\ df = <<records[1]>>

-----------------------------------------------------------------------------
(* Properties of the pipeline *)

\* C2 as stated: every record of the final sequence has a non-empty body.
C2_FinalBodiesNonEmpty ==
    pc = "done" => \A i \in 1..Len(df) : df[i].text # <<>>

\* no index of t starts an Article marker match
NoArticleMatch(t) == \A p \in 1..Len(t) : ~PASAL_ANY_RE(t, p).ok

\* C9: a text with no Article marker match (an empty or whitespace-only text among
\* them) gives zero blocks and zero records, and the run ends at once with the
\* empty result: no later step is entered.
C9_NoArticleNoRecords ==
    (pc # "start" /\ NoArticleMatch(read_pdf_text(raw_text)))
        => /\ blocks = <<>>
           /\ records = <<>>
           /\ df = <<>>
           /\ pc = "done"

C9_Witness ==
    /\ pc = "done"
    /\ NoArticleMatch(read_pdf_text(raw_text))
    /\ \E i \in 1..Len(raw_text) : raw_text[i] = "a"
    /\ \E i \in 1..Len(raw_text) : raw_text[i] = "B"
    /\ records = <<>>
    /\ df = <<>>

\* C10 as stated: every ARTICLE record of the final sequence is, field for field,
\* the record build_records_per_pdf made, its paragraph label still absent.
C10_FinalArticlesAsBuilt ==
    pc = "done" =>
        \A i \in 1..Len(df) :
            df[i].section_type = PASAL_T
                => /\ \E j \in 1..Len(records) : df[i] = records[j]
                   /\ df[i].ayat_number = None

-----------------------------------------------------------------------------
(* Properties of detect_structure *)

\* index p starts a line of t, whatever the line terminator before it
IsTrueLineStart(t, p) ==
    p = 1 \/ (t[p - 1] \in LineBreak /\ ~(t[p - 1] = CR /\ t[p] = LF))

\* the line that starts at index p
LineAt(t, p) == Slice(t, p, SkipUntil(t, p, LineBreak))

\* the indexes at which a marker line of the kind truly starts
TrueMarks(t, kind) ==
    {p \in 1..Len(t) : IsTrueLineStart(t, p) /\ heading_re(kind, LineAt(t, p)).ok}

MaxOf(S) == CHOOSE x \in S : \A y \in S : y <= x

\* the last marker of the kind whose true offset is at or before offset start
EnclosingTag(t, kind, start) ==
    LET S == {p \in TrueMarks(t, kind) : p - 1 <= start}
    IN  IF S = {} THEN None
        ELSE LET m == heading_re(kind, LineAt(t, MaxOf(S)))
             IN  <<kind, m.label, m.title>>

\* C3 as stated: each block carries, for BOOK, CHAPTER and PART, the last marker of
\* that type whose true character offset is at or before the block's start, and
\* none when there is no such marker.
C3_NearestPrecedingByTrueOffset ==
    pc = "detected" =>
        \A i \in 1..Len(blocks) :
            /\ blocks[i].buku = EnclosingTag(raw_text, "BUKU", blocks[i].start)
            /\ blocks[i].bab = EnclosingTag(raw_text, "BAB", blocks[i].start)
            /\ blocks[i].bagian = EnclosingTag(raw_text, "BAGIAN", blocks[i].start)

\* C5: blocks are as many as the Article marker matches, start in strictly
\* ascending order at places where the marker matches, do not overlap, and are
\* contiguous from the first match to the end of the text.
C5_BlocksPartitionFromFirstMatch ==
    pc = "detected" =>
        LET n == Len(blocks)
            hits == {p \in 1..Len(raw_text) : PASAL_ANY_RE(raw_text, p).ok}
        IN  /\ n = Len(finditer(raw_text))
            /\ (n = 0) = (hits = {})
            /\ \A i \in 1..n : /\ blocks[i].start < blocks[i].end
                               /\ (blocks[i].start + 1) \in hits
            /\ \A i \in 1..(n - 1) : blocks[i].end = blocks[i + 1].start
            /\ n > 0 => /\ blocks[1].start = MinOf(hits) - 1
                        /\ blocks[n].end = Len(raw_text)

C5_Witness ==
    /\ pc = "detected"
    /\ Len(blocks) = 2
    /\ blocks[1].start > 0
    /\ blocks[1].end = blocks[2].start
    /\ blocks[2].end = Len(raw_text)
    /\ blocks[1].end < Len(raw_text)

-----------------------------------------------------------------------------
(* Properties of minimal_clean *)

\* C4 as stated: cleaning a cleaned text changes nothing.
C4_CleanIdempotent ==
    pc = "recleaned" => cleaned[2] = cleaned[1]

\* the occurrences of "(" digits ")" in t, without inner whitespace, as <<i, j>>
StrictSpans(t) ==
    {sp \in (1..Len(t)) \X (1..Len(t)) :
        /\ sp[1] + 1 < sp[2]
        /\ t[sp[1]] = "("
        /\ t[sp[2]] = ")"
        /\ \A k \in (sp[1] + 1)..(sp[2] - 1) : t[k] \in Digit}

\* those occurrences as texts, left to right
StrictMarkers(t) ==
    LET S == StrictSpans(t)
    IN  [k \in 1..Cardinality(S) |-> Slice(t, NthSpan(S, k)[1], NthSpan(S, k)[2] + 1)]

RECURSIVE IsSubsequence(_, _)
\* a is b with some elements left out
IsSubsequence(a, b) ==
    IF a = <<>> THEN TRUE
    ELSE IF b = <<>> THEN FALSE
    ELSE IF Head(a) = Head(b) THEN IsSubsequence(Tail(a), Tail(b))
    ELSE IsSubsequence(a, Tail(b))

\* C7 as stated: every "(" digits ")" of the input is in the output unchanged, in
\* the same relative order.
C7_MarkersUnchanged ==
    pc = "cleaned" => IsSubsequence(StrictMarkers(raw_text), StrictMarkers(cleaned[1]))

\* C7 amended: every "(" digits ")" of the input is in the output, in the same
\* relative order, with its digits in their NFKC form: a marker of ASCII digits
\* is unchanged, a fullwidth digit in a marker is replaced by its ASCII digit.
C7_MarkersKeptUpToNFKC ==
    pc = "cleaned" =>
        LET ins == StrictMarkers(raw_text)
        IN  IsSubsequence([k \in 1..Len(ins) |-> NFKC(ins[k])], StrictMarkers(cleaned[1]))

C7_Witness ==
    /\ pc = "cleaned"
    /\ StrictMarkers(raw_text) = << <<"(", "1", ")">>, <<"(", FWONE, ")">> >>
    /\ Len(cleaned[1]) < Len(raw_text)
    /\ StrictMarkers(cleaned[1]) = << <<"(", "1", ")">>, <<"(", "1", ")">> >>

====
